---- MODULE Spec2Model ----
(***************************************************************************)
(* EdgeworthExplorer: the pipeline of main.py and the numerical solvers of *)
(* utils/economic_calculations.py.                                         *)
(*                                                                         *)
(* Floats are modelled in fixed point.  Quantities of a good are integers  *)
(* in ticks, Res ticks to one unit; marginal rates of substitution, their  *)
(* gaps and excesses are integers in 1/Scale, extended by +inf and NaN     *)
(* with the IEEE rules the code relies on (inf - inf = NaN, every          *)
(* comparison with NaN is false).  A division truncates to the grid.       *)
(* The grid is as fine as the bisection's tolerance up to FloatExact ticks *)
(* and twice as coarse above, as the doubles are from one binade to the    *)
(* next: a coordinate above FloatExact is rounded to an even tick.         *)
(***************************************************************************)
EXTENDS Integers, Sequences, FiniteSets, TLC

VARIABLES
  utility_a, utility_b,            \* main.py: the two text inputs
  endow_ax, endow_ay, endow_bx, endow_by,
  util_func_a, util_func_b,        \* main.py: the parsed callables
  total_x, total_y,
  pc,                              \* position in main.py and in the solver it is running
  shown,                           \* what st.plotly_chart / st.error have put on the page
  ic_a, ic_b,                      \* main.py: results of calculate_indifference_curves
  u_idx, x_idx, low, high, ic_y, curves,   \* calculate_indifference_curves: locals
  offer_curves,                    \* main.py: result of calculate_offer_curves
  cc_i, x_points, y_points, best_y, best_diff, dy,   \* calculate_offer_curves: locals
  equilibrium_points,              \* main.py: result of find_walrasian_equilibrium
  eq_k, x_candidates, eq_c, x_current, step, eq_points,  \* find_walrasian_equilibrium: locals
  mrs_call                         \* one call of calculate_mrs: arguments, result, evaluations

inputVars == <<utility_a, utility_b, endow_ax, endow_ay, endow_bx, endow_by>>
mainVars  == <<util_func_a, util_func_b, total_x, total_y>>
icVars    == <<u_idx, x_idx, low, high, ic_y, curves>>
ccVars    == <<cc_i, x_points, y_points, best_y, best_diff, dy>>
eqVars    == <<eq_k, x_candidates, eq_c, x_current, step, eq_points>>
vars == <<inputVars, mainVars, pc, shown, ic_a, ic_b, icVars, offer_curves, ccVars,
          equilibrium_points, eqVars, mrs_call>>

(***************************************************************************)
(* Bounds of the model.                                                    *)
(***************************************************************************)
\* ticks per unit of a good
Res == 20
\* fixed-point denominator of MRS values
Scale == 100
\* calculate_indifference_curves: x samples (100 in the code) and levels (num_curves)
NumX == 3
NumCurves == 2
\* calculate_offer_curves: slices (num_points) and coarse y candidates (50 in the code)
NumPoints == 7
NumYScan == 5
\* find_walrasian_equilibrium: price ratios (num_prices), x grid (30), y samples (20, 50)
NumPrices == 3
NumXGrid == 5
NumTCoarse == 4
NumTFine == 6
\* the ticks from which on only every second tick is a float
FloatExact == 64

(***************************************************************************)
(* Program constants, in ticks where they are lengths.                     *)
(***************************************************************************)
\* epsilon of calculate_mrs, the smallest step of the grid
Eps == 1
\* the bisection's bracket tolerance (1e-6), one tick of the grid it runs on
BracketTol == 1
\* x_candidates[:3]
TopCandidates == 3
\* len(x_points) > 5
SmoothMin == 5
\* window = 5
Window == 5
\* dy > 1e-6 * total_y
DyStopDenominator == 1000000
\* step > 1e-4
StepStopDenominator == 10000

\* 0.1 of a unit: the margins of the box, the first refinement step
Tenth == Res \div 10

(***************************************************************************)
(* Floats.                                                                 *)
(***************************************************************************)
Fin(n) == <<"fin", n>>
Inf == <<"inf", 0>>
NaN == <<"nan", 0>>
IsFin(a) == a[1] = "fin"
IsInf(a) == a[1] = "inf"
IsNaN(a) == a[1] = "nan"

None == << >>
Some(v) == <<v>>

Abs(n) == IF n < 0 THEN -n ELSE n

\* float division, truncated to the grid
Quot(a, b) ==
  IF b > 0
    THEN (IF a >= 0 THEN a \div b ELSE -((-a) \div b))
    ELSE (IF a >= 0 THEN -(a \div (-b)) ELSE (-a) \div (-b))

\* abs(a - b) of two values that are finite or +inf
AbsDiff(a, b) ==
  IF IsNaN(a) \/ IsNaN(b) THEN NaN
  ELSE IF IsInf(a) /\ IsInf(b) THEN NaN
  ELSE IF IsInf(a) \/ IsInf(b) THEN Inf
  ELSE Fin(Abs(a[2] - b[2]))

\* a + b of two non-negative values
Add(a, b) ==
  IF IsNaN(a) \/ IsNaN(b) THEN NaN
  ELSE IF IsInf(a) \/ IsInf(b) THEN Inf
  ELSE Fin(a[2] + b[2])

\* a < b
Lt(a, b) ==
  IF IsNaN(a) \/ IsNaN(b) THEN FALSE
  ELSE IF IsInf(a) THEN FALSE
  ELSE IF IsInf(b) THEN TRUE
  ELSE a[2] < b[2]

\* a coordinate as the float nearest to it, a tie going to the even mantissa
Fl(v) ==
  IF v < FloatExact \/ v % 2 = 0 THEN v
  ELSE IF (v + 1) % 4 = 0 THEN v + 1 ELSE v - 1

\* np.linspace(a, b, n)[i]
Linspace(a, b, n, i) == a + Quot((b - a) * i, n - 1)

(***************************************************************************)
(* Utility functions: the text inputs and what sympify/lambdify make of    *)
(* them.                                                                   *)
(***************************************************************************)
ValidUtilities ==
  {"x*y", "x + y", "2*x + y", "x", "x**2*y", "x*y - y**2", "y - x", "I"}
\* sympify rejects it: parse_utility_function raises ValueError
MalformedUtilities == {"x +* y"}
\* lambdify accepts it, the callable raises NameError on its first call
UndefinedNameUtilities == {"x*z"}
Utilities == ValidUtilities \cup MalformedUtilities \cup UndefinedNameUtilities

Parses(s) == s \notin MalformedUtilities
Evaluates(f) == f \notin UndefinedNameUtilities
\* Z_a[i,j] = util_func_a(x_val, y_val): a float array takes every value but the
\* Python complex that the constant I is lambdified to
SurfaceAssignable(f) == f # "I"

\* the callable lambdify returns, applied to (x, y); the constant I is worth the same
\* everywhere, which is all the differences and comparisons of the solvers see of it
U(f, x, yy) ==
  CASE f = "x*y" -> x * yy
    [] f = "x + y" -> x + yy
    [] f = "2*x + y" -> 2 * x + yy
    [] f = "x" -> x
    [] f = "x**2*y" -> x * x * yy
    [] f = "x*y - y**2" -> x * yy - yy * yy
    [] f = "y - x" -> yy - x
    [] f = "I" -> 0
    [] OTHER -> 0

(***************************************************************************)
(* calculate_mrs                                                           *)
(***************************************************************************)
\* the points at which one call evaluates util_func
MrsEvalPoints(x, yy, epsilon) == {<<x + epsilon, yy>>, <<x, yy>>, <<x, yy + epsilon>>}

\* calculate_mrs with the two differences in each other's place
calculate_mrs_dy_on_dx(f, x, yy, epsilon) ==
  LET ddx == Quot((U(f, x + epsilon, yy) - U(f, x, yy)) * Scale, epsilon)
      ddy == Quot((U(f, x, yy + epsilon) - U(f, x, yy)) * Scale, epsilon)
  IN  IF ddx # 0 THEN Fin(Quot((-ddx) * Scale, IF ddy = 0 THEN 1 ELSE ddy)) ELSE Inf

calculate_mrs(f, x, yy, epsilon) ==
  LET ddx == Quot((U(f, x + epsilon, yy) - U(f, x, yy)) * Scale, epsilon)
      ddy == Quot((U(f, x, yy + epsilon) - U(f, x, yy)) * Scale, epsilon)
  IN  IF ddy # 0 THEN Fin(Quot((-ddx) * Scale, ddy)) ELSE Inf

Mrs(f, x, yy) == calculate_mrs(f, x, yy, Eps)

(***************************************************************************)
(* main.py: inputs, parsing, the except handler                            *)
(***************************************************************************)
\* st.number_input: the endowments offered to the model, in ticks
EndowmentChoices == {Res, 2 * Res}

IdleCall == [state |-> "idle", f |-> "x", x |-> 0, y |-> 0, epsilon |-> Eps,
             result |-> None, evals |-> {}]

\* the state in which the script starts, but for its inputs
Start ==
  /\ util_func_a = None /\ util_func_b = None
  /\ total_x = 0 /\ total_y = 0
  /\ pc = "parse_a"
  /\ shown = << >>
  /\ ic_a = << >> /\ ic_b = << >>
  /\ u_idx = 0 /\ x_idx = 0 /\ low = 0 /\ high = 0 /\ ic_y = << >> /\ curves = << >>
  /\ offer_curves = [x |-> << >>, y |-> << >>]
  /\ cc_i = 0 /\ x_points = << >> /\ y_points = << >>
  /\ best_y = None /\ best_diff = Inf /\ dy = 0
  /\ equilibrium_points = << >>
  /\ eq_k = 0 /\ x_candidates = << >> /\ eq_c = 0 /\ x_current = 0 /\ step = 0
  /\ eq_points = << >>
  /\ mrs_call = IdleCall

Init ==
  /\ utility_a \in Utilities
  /\ utility_b \in Utilities
  /\ endow_ax \in EndowmentChoices
  /\ endow_ay = Res
  /\ endow_bx = Res
  /\ endow_by \in EndowmentChoices \cup {4 * Res}
  /\ Start

\* except Exception as e: st.error(...)
Except ==
  /\ pc' = "failed"
  /\ shown' = Append(shown, "error")

\* util_func_a = parse_utility_function(utility_a)
ParseA ==
  /\ pc = "parse_a"
  /\ IF Parses(utility_a)
       THEN /\ util_func_a' = Some(utility_a)
            /\ pc' = "parse_b"
            /\ shown' = shown
       ELSE /\ Except
            /\ util_func_a' = util_func_a
  /\ UNCHANGED <<inputVars, util_func_b, total_x, total_y, ic_a, ic_b, icVars,
                 offer_curves, ccVars, equilibrium_points, eqVars, mrs_call>>

\* util_func_b = parse_utility_function(utility_b); total_x = ...; total_y = ...
ParseB ==
  /\ pc = "parse_b"
  /\ IF Parses(utility_b)
       THEN /\ util_func_b' = Some(utility_b)
            /\ total_x' = Fl(endow_ax + endow_bx)
            /\ total_y' = Fl(endow_ay + endow_by)
            /\ pc' = "ic_a"
            /\ shown' = shown
       ELSE /\ Except
            /\ UNCHANGED <<util_func_b, total_x, total_y>>
  /\ UNCHANGED <<inputVars, util_func_a, ic_a, ic_b, icVars,
                 offer_curves, ccVars, equilibrium_points, eqVars, mrs_call>>

FA == util_func_a[1]
FB == util_func_b[1]

(***************************************************************************)
(* calculate_indifference_curves(util_func, max_x, max_y), called with     *)
(* (util_func_a, total_x, total_y) and then (util_func_b, total_x, total_y)*)
(***************************************************************************)
\* x = np.linspace(0.1, max_x, 100)
XSample(max_x, i) == Fl(Linspace(Tenth, max_x, NumX, i))
XSamples(max_x) == [i \in 1..NumX |-> XSample(max_x, i - 1)]

\* u_levels = np.linspace(util_func(max_x/4, max_y/4), util_func(max_x*3/4, max_y*3/4), num_curves)
ULevel(f, max_x, max_y, k) ==
  Linspace(U(f, Quot(max_x, 4), Quot(max_y, 4)),
           U(f, Quot(max_x * 3, 4), Quot(max_y * 3, 4)), NumCurves, k)

IcFunc(who) == IF who = "a" THEN FA ELSE FB
IcEntry(who) == IF who = "a" THEN "ic_a" ELSE "ic_b"
IcLoop(who) == IF who = "a" THEN "ic_a_bisect" ELSE "ic_b_bisect"
IcBody(who) == IF who = "a" THEN "ic_a_mid" ELSE "ic_b_mid"
IcExit(who) == IF who = "a" THEN "ic_b" ELSE "cc"

\* the bisection goes on: high - low > 1e-6
BracketOpen(lo, hi) == hi - lo > BracketTol

\* util_func(xi, mid) < u
BelowLevel(f, xi, mid, u) == U(f, xi, mid) < u

\* the call, up to the first column's low, high = 0.1, max_y
IcStart(who) ==
  /\ pc = IcEntry(who)
  /\ IF Evaluates(IcFunc(who))
       THEN /\ u_idx' = 0 /\ x_idx' = 0
            /\ low' = Tenth /\ high' = total_y
            /\ ic_y' = << >> /\ curves' = << >>
            /\ pc' = IcLoop(who)
            /\ shown' = shown
       ELSE /\ Except
            /\ UNCHANGED icVars
  /\ UNCHANGED <<inputVars, mainVars, ic_a, ic_b, offer_curves, ccVars,
                 equilibrium_points, eqVars, mrs_call>>

\* while high - low > 1e-6: the test passes and the body is entered
IcWhile(who) ==
  /\ pc = IcLoop(who)
  /\ BracketOpen(low, high)
  /\ pc' = IcBody(who)
  /\ UNCHANGED <<inputVars, mainVars, shown, ic_a, ic_b, icVars,
                 offer_curves, ccVars, equilibrium_points, eqVars, mrs_call>>

\* mid = (low + high) / 2
Mid(lo, hi) == Fl(Quot(lo + hi, 2))

\* the body: mid = (low + high) / 2, and low or high becomes mid
IcBisect(who) ==
  /\ pc = IcBody(who)
  /\ IF BelowLevel(IcFunc(who), XSample(total_x, x_idx), Mid(low, high),
                   ULevel(IcFunc(who), total_x, total_y, u_idx))
       THEN low' = Mid(low, high) /\ high' = high
       ELSE high' = Mid(low, high) /\ low' = low
  /\ pc' = IcLoop(who)
  /\ UNCHANGED <<inputVars, mainVars, shown, ic_a, ic_b, u_idx, x_idx, ic_y, curves,
                 offer_curves, ccVars, equilibrium_points, eqVars, mrs_call>>

\* y.append(low), and on to the next xi
IcNextColumn(who) ==
  /\ pc = IcLoop(who)
  /\ ~BracketOpen(low, high)
  /\ x_idx + 1 < NumX
  /\ ic_y' = Append(ic_y, low)
  /\ x_idx' = x_idx + 1
  /\ low' = Tenth /\ high' = total_y
  /\ UNCHANGED <<inputVars, mainVars, pc, shown, ic_a, ic_b, u_idx, curves,
                 offer_curves, ccVars, equilibrium_points, eqVars, mrs_call>>

\* y.append(low) for the last xi, curves.append((x, np.array(y))), and on to the next u
IcNextLevel(who) ==
  /\ pc = IcLoop(who)
  /\ ~BracketOpen(low, high)
  /\ x_idx + 1 = NumX
  /\ u_idx + 1 < NumCurves
  /\ curves' = Append(curves, [x |-> XSamples(total_x), y |-> Append(ic_y, low)])
  /\ ic_y' = << >>
  /\ u_idx' = u_idx + 1
  /\ x_idx' = 0
  /\ low' = Tenth /\ high' = total_y
  /\ UNCHANGED <<inputVars, mainVars, pc, shown, ic_a, ic_b,
                 offer_curves, ccVars, equilibrium_points, eqVars, mrs_call>>

\* the last curve is appended and curves is returned to main.py
IcReturn(who) ==
  /\ pc = IcLoop(who)
  /\ ~BracketOpen(low, high)
  /\ x_idx + 1 = NumX
  /\ u_idx + 1 = NumCurves
  /\ LET done == Append(curves, [x |-> XSamples(total_x), y |-> Append(ic_y, low)])
     IN  /\ curves' = done
         /\ IF who = "a" THEN ic_a' = done /\ ic_b' = ic_b
                         ELSE ic_b' = done /\ ic_a' = ic_a
  /\ ic_y' = Append(ic_y, low)
  /\ pc' = IcExit(who)
  /\ UNCHANGED <<inputVars, mainVars, shown, u_idx, x_idx, low, high,
                 offer_curves, ccVars, equilibrium_points, eqVars, mrs_call>>

IndifferenceCurves(who) ==
  \/ IcStart(who)
  \/ IcWhile(who)
  \/ IcBisect(who)
  \/ IcNextColumn(who)
  \/ IcNextLevel(who)
  \/ IcReturn(who)

(***************************************************************************)
(* calculate_offer_curves(util_func_a, util_func_b, total_x, total_y, ...) *)
(***************************************************************************)
\* x_base = total_x * t, t the i-th of np.linspace(0.05, 0.95, num_points)
XBase(tx, i) == Fl(Quot(tx * (5 * (NumPoints - 1) + 90 * i), 100 * (NumPoints - 1)))

\* y_values = np.linspace(0.05 * total_y, 0.95 * total_y, 50)
YValue(ty, j) == Fl(Linspace(Quot(5 * ty, 100), Quot(95 * ty, 100), NumYScan, j))

\* diff = abs(mrs_a - mrs_b) at A's bundle (x, yy) and B's complement
MrsGap(fa, fb, tx, ty, x, yy) ==
  CHOOSE diff \in {AbsDiff(mrs_a, mrs_b) :
                     mrs_a \in {Mrs(fa, x, yy)},
                     mrs_b \in {Mrs(fb, tx - x, ty - yy)}} : TRUE

\* if diff < best_diff: the candidate replaces the best
Improves(new, cur) == Lt(new, cur)

\* for y_test in y_values: ... (the coarse scan of one slice, from candidate j on)
RECURSIVE ScanSlice(_, _, _, _, _, _, _)
ScanSlice(fa, fb, tx, ty, xb, j, best) ==
  IF j >= NumYScan THEN best
  ELSE LET y_test == YValue(ty, j)
           diff == MrsGap(fa, fb, tx, ty, xb, y_test)
       IN  CHOOSE r \in {ScanSlice(fa, fb, tx, ty, xb, j + 1, b) :
                           b \in {IF Improves(diff, best.diff)
                                    THEN [diff |-> diff, y |-> Some(y_test)]
                                    ELSE best}} : TRUE

\* best_diff < 1.0, the relaxed initial tolerance
WithinInitialTolerance(d) == Lt(d, Fin(Scale))

\* best_diff < 0.1, the final tolerance
\* the final test with the tolerance of the initial one
WithinFinalTolerance_Relaxed(d) == Lt(d, Fin(Scale))
WithinFinalTolerance(d) == Lt(d, Fin(Quot(Scale, 10)))

\* 0.01 * total_y < y_new < 0.99 * total_y
InRefineRange(y_new, ty) == ty < 100 * y_new /\ 100 * y_new < 99 * ty

\* dy > 1e-6 * total_y
DyOpen(d, ty) == d > Quot(ty, DyStopDenominator)

\* the body of for y_new in [best_y - dy, best_y + dy] for one y_new
TryNeighbour(fa, fb, tx, ty, xb, s, y_new) ==
  IF InRefineRange(y_new, ty)
    THEN CHOOSE r \in
           {IF Improves(diff, s.diff)
              THEN [diff |-> diff, y |-> y_new, improved |-> TRUE]
              ELSE s :
            diff \in {MrsGap(fa, fb, tx, ty, xb, y_new)}} : TRUE
    ELSE s

RECURSIVE SumSeq(_)
SumSeq(q) == IF q = << >> THEN 0 ELSE Head(q) + SumSeq(Tail(q))

\* np.convolve(y_points, np.ones(window)/window, mode='valid')
MovingAverage(ys, w) ==
  [k \in 1..(Len(ys) - w + 1) |-> Quot(SumSeq(SubSeq(ys, k, k + w - 1)), w)]

\* x_points[window-1:][:len(y_smooth)]
\* x_smooth without the slices
XSmooth_Untruncated(xs, w, n) == xs
XSmooth(xs, w, n) ==
  LET tail == SubSeq(xs, w, Len(xs))
  IN  SubSeq(tail, 1, IF n < Len(tail) THEN n ELSE Len(tail))

\* if len(x_points) > 5: the smoothed arrays, else the raw ones
SmoothOrRaw(xs, ys) ==
  IF Len(xs) > SmoothMin
    THEN LET y_smooth == MovingAverage(ys, Window)
         IN  [x |-> XSmooth(xs, Window, Len(y_smooth)), y |-> y_smooth]
    ELSE [x |-> xs, y |-> ys]

\* one slice: the coarse scan, and the test that opens the local optimisation
CcScan ==
  /\ pc = "cc"
  /\ cc_i < NumPoints
  /\ \E best \in {ScanSlice(FA, FB, total_x, total_y, XBase(total_x, cc_i), 0,
                              [diff |-> Inf, y |-> None])} :
         /\ best_diff' = best.diff
         /\ best_y' = best.y
         /\ IF best.y # None /\ WithinInitialTolerance(best.diff)
              THEN /\ dy' = Quot(total_y, 10)
                   /\ pc' = "cc_refine"
                   /\ cc_i' = cc_i
              ELSE /\ dy' = dy
                   /\ pc' = "cc"
                   /\ cc_i' = cc_i + 1
  /\ UNCHANGED <<inputVars, mainVars, shown, ic_a, ic_b, icVars, offer_curves,
                 x_points, y_points, equilibrium_points, eqVars, mrs_call>>

\* one iteration of while dy > 1e-6 * total_y
CcRefine ==
  /\ pc = "cc_refine"
  /\ DyOpen(dy, total_y)
  /\ \E s1 \in {TryNeighbour(FA, FB, total_x, total_y, XBase(total_x, cc_i),
                                 [diff |-> best_diff, y |-> best_y[1], improved |-> FALSE],
                                 Fl(best_y[1] - dy))} :
     \E s2 \in {TryNeighbour(FA, FB, total_x, total_y, XBase(total_x, cc_i), s1,
                                 Fl(best_y[1] + dy))} :
         /\ best_diff' = s2.diff
         /\ best_y' = Some(s2.y)
         /\ dy' = IF s2.improved THEN dy ELSE Quot(dy, 2)
  /\ UNCHANGED <<inputVars, mainVars, pc, shown, ic_a, ic_b, icVars, offer_curves,
                 cc_i, x_points, y_points, equilibrium_points, eqVars, mrs_call>>

\* the loop is over: if best_diff < 0.1 the slice's point is appended
CcAccept ==
  /\ pc = "cc_refine"
  /\ ~DyOpen(dy, total_y)
  /\ IF WithinFinalTolerance(best_diff)
       THEN /\ x_points' = Append(x_points, XBase(total_x, cc_i))
            /\ y_points' = Append(y_points, best_y[1])
       ELSE UNCHANGED <<x_points, y_points>>
  /\ cc_i' = cc_i + 1
  /\ pc' = "cc"
  /\ UNCHANGED <<inputVars, mainVars, shown, ic_a, ic_b, icVars, offer_curves,
                 best_y, best_diff, dy, equilibrium_points, eqVars, mrs_call>>

\* after the last slice: smooth or not, and return to main.py
CcReturn ==
  /\ pc = "cc"
  /\ cc_i = NumPoints
  /\ offer_curves' = SmoothOrRaw(x_points, y_points)
  /\ pc' = "eq"
  /\ UNCHANGED <<inputVars, mainVars, shown, ic_a, ic_b, icVars, ccVars,
                 equilibrium_points, eqVars, mrs_call>>

OfferCurves == CcScan \/ CcRefine \/ CcAccept \/ CcReturn

(***************************************************************************)
(* find_walrasian_equilibrium(util_func_a, util_func_b, total_x, total_y)  *)
(***************************************************************************)
\* np.exp(t) in thousandths, for the whole t of -5..5
ExpMilli == <<7, 18, 50, 135, 368, 1000, 2718, 7389, 20086, 54598, 148413>>

\* price_ratios = np.exp(np.linspace(-5, 5, num_prices)), the k-th of them
PriceRatio(k) == Fin(Quot(ExpMilli[Linspace(-5, 5, NumPrices, k) + 6] * Scale, 1000))

\* x <= 0.1 or x >= total_x - 0.1
\* demand_excess without its margin test
OutsideX_Never(x, tx) == FALSE
OutsideX(x, tx) == x <= Tenth \/ x >= tx - Tenth

\* 0.1 < x_new < total_x - 0.1
InsideX(x, tx) == Tenth < x /\ x < tx - Tenth

\* 0.1 < y_test < total_y - 0.1
InsideY(yy, ty) == Tenth < yy /\ yy < ty - Tenth

\* y_test = total_y * t, t the j-th of np.linspace(0.1, 0.9, n)
YTest(ty, n, j) == Fl(Quot(ty * ((n - 1) + 8 * j), 10 * (n - 1)))

\* excess = abs(mrs_a - price_ratio) + abs(mrs_b - price_ratio)
Excess(fa, fb, tx, ty, p, x, yy) ==
  CHOOSE excess \in {Add(AbsDiff(mrs_a, p), AbsDiff(mrs_b, p)) :
                       mrs_a \in {Mrs(fa, x, yy)},
                       mrs_b \in {Mrs(fb, tx - x, ty - yy)}} : TRUE

\* for t in np.linspace(0.1, 0.9, n): ... (the best y for one x, from sample j on)
RECURSIVE BestOverT(_, _, _, _, _, _, _, _, _)
BestOverT(fa, fb, tx, ty, p, x, n, j, best) ==
  IF j >= n THEN best
  ELSE LET y_test == YTest(ty, n, j)
           excess == Excess(fa, fb, tx, ty, p, x, y_test)
       IN  CHOOSE r \in {BestOverT(fa, fb, tx, ty, p, x, n, j + 1, b) :
                           b \in {IF InsideY(y_test, ty) /\ Lt(excess, best.excess)
                                    THEN [excess |-> excess, y |-> Some(y_test)]
                                    ELSE best}} : TRUE

NoBest == [excess |-> Inf, y |-> None]

\* def demand_excess(x)
demand_excess(fa, fb, tx, ty, p, x) ==
  IF OutsideX(x, tx) THEN Inf
  ELSE CHOOSE excess \in {IF b.y # None THEN b.excess ELSE Inf :
                             b \in {BestOverT(fa, fb, tx, ty, p, x, NumTCoarse, 0, NoBest)}} :
         TRUE

\* x_grid = np.linspace(0.1, total_x - 0.1, 30)
XGrid(tx, i) == Fl(Linspace(Tenth, tx - Tenth, NumXGrid, i))

\* list.sort(key=...) is stable: c goes before the first element with a greater key
InsertByExcess(sorted, c) ==
  LET greater == {i \in 1..Len(sorted) : Lt(c.excess, sorted[i].excess)}
      at == IF greater = {} THEN Len(sorted) + 1
            ELSE CHOOSE i \in greater : \A k \in greater : i <= k
  IN  SubSeq(sorted, 1, at - 1) \o <<c>> \o SubSeq(sorted, at, Len(sorted))

\* x_candidates = [(x, demand_excess(x)) for x in x_grid]; x_candidates.sort(key=...)
RECURSIVE SortedCandidates(_, _, _, _, _, _)
SortedCandidates(fa, fb, tx, ty, p, n) ==
  IF n = 0 THEN << >>
  ELSE CHOOSE r \in {InsertByExcess(sorted, c) :
                        sorted \in {SortedCandidates(fa, fb, tx, ty, p, n - 1)},
                        c \in {[x |-> XGrid(tx, n - 1),
                                excess |-> demand_excess(fa, fb, tx, ty, p,
                                                         XGrid(tx, n - 1))]}} : TRUE

\* x_candidates[:3]
FirstCandidates(q) == SubSeq(q, 1, IF Len(q) < TopCandidates THEN Len(q) ELSE TopCandidates)

\* excess < 1.0 and best_excess < 1.0, the relaxed tolerances
\* the append without its tolerance test
WithinExcessTolerance_Any(e) == TRUE
WithinExcessTolerance(e) == Lt(e, Fin(Scale))

\* step > 1e-4
StepOpen(s) == s > Quot(Res, StepStopDenominator)

\* np.sqrt((p1[0]-p2[0])**2 + (p1[1]-p2[1])**2) < 1.0
\* the distance taken along x only
Near_XOnly(p1, p2) == Abs(p1[1] - p2[1]) < Res
Near(p1, p2) ==
  (p1[1] - p2[1]) * (p1[1] - p2[1]) + (p1[2] - p2[2]) * (p1[2] - p2[2]) < Res * Res

\* for p1 in equilibrium_points: if not any(near ...): filtered_points.append(p1)
RECURSIVE FilterNearby(_, _, _)
FilterNearby(points, i, filtered) ==
  IF i > Len(points) THEN filtered
  ELSE CHOOSE r \in {FilterNearby(points, i + 1, f) :
                        f \in {IF \E k \in 1..Len(filtered) : Near(points[i], filtered[k])
                                 THEN filtered ELSE Append(filtered, points[i])}} : TRUE

\* one price ratio: the grid search and the sort
EqGrid ==
  /\ pc = "eq"
  /\ eq_k < NumPrices
  /\ x_candidates' = FirstCandidates(
        SortedCandidates(FA, FB, total_x, total_y, PriceRatio(eq_k), NumXGrid))
  /\ eq_c' = 0
  /\ pc' = "eq_cand"
  /\ UNCHANGED <<inputVars, mainVars, shown, ic_a, ic_b, icVars, offer_curves, ccVars,
                 equilibrium_points, eq_k, x_current, step, eq_points, mrs_call>>

\* for x_init, excess in x_candidates[:3]: if excess < 1.0: x_current = x_init; step = 0.1
EqCandidate ==
  /\ pc = "eq_cand"
  /\ eq_c < Len(x_candidates)
  /\ IF WithinExcessTolerance(x_candidates[eq_c + 1].excess)
       THEN /\ x_current' = x_candidates[eq_c + 1].x
            /\ step' = Tenth
            /\ pc' = "eq_refine"
            /\ eq_c' = eq_c
       ELSE /\ eq_c' = eq_c + 1
            /\ UNCHANGED <<x_current, step, pc>>
  /\ UNCHANGED <<inputVars, mainVars, shown, ic_a, ic_b, icVars, offer_curves, ccVars,
                 equilibrium_points, eq_k, x_candidates, eq_points, mrs_call>>

\* the candidates of this price ratio are done: the next price ratio
EqNextPrice ==
  /\ pc = "eq_cand"
  /\ eq_c = Len(x_candidates)
  /\ eq_k' = eq_k + 1
  /\ pc' = "eq"
  /\ UNCHANGED <<inputVars, mainVars, shown, ic_a, ic_b, icVars, offer_curves, ccVars,
                 equilibrium_points, x_candidates, eq_c, x_current, step, eq_points,
                 mrs_call>>

\* one iteration of while step > 1e-4
EqRefine ==
  /\ pc = "eq_refine"
  /\ StepOpen(step)
  /\ \E p \in {PriceRatio(eq_k)}, left \in {Fl(x_current - step)},
        right \in {Fl(x_current + step)} :
     \E here \in {demand_excess(FA, FB, total_x, total_y, p, x_current)} :
     \E goes_left \in {/\ InsideX(left, total_x)
                        /\ Improves(demand_excess(FA, FB, total_x, total_y, p, left),
                                    here)} :
     \E goes_right \in {/\ InsideX(right, total_x)
                         /\ Improves(demand_excess(FA, FB, total_x, total_y, p, right),
                                     here)} :
         IF goes_left THEN x_current' = left /\ step' = step
         ELSE IF goes_right THEN x_current' = right /\ step' = step
         ELSE x_current' = x_current /\ step' = Quot(step, 2)
  /\ UNCHANGED <<inputVars, mainVars, pc, shown, ic_a, ic_b, icVars, offer_curves, ccVars,
                 equilibrium_points, eq_k, x_candidates, eq_c, eq_points, mrs_call>>

\* the loop is over: the fine y search, and the append if best_excess < 1.0
EqFinish ==
  /\ pc = "eq_refine"
  /\ ~StepOpen(step)
  /\ \E b \in {BestOverT(FA, FB, total_x, total_y, PriceRatio(eq_k), x_current,
                           NumTFine, 0, NoBest)} :
         IF b.y # None /\ WithinExcessTolerance(b.excess)
           THEN eq_points' = Append(eq_points, <<x_current, b.y[1]>>)
           ELSE eq_points' = eq_points
  /\ eq_c' = eq_c + 1
  /\ pc' = "eq_cand"
  /\ UNCHANGED <<inputVars, mainVars, shown, ic_a, ic_b, icVars, offer_curves, ccVars,
                 equilibrium_points, eq_k, x_candidates, x_current, step, mrs_call>>

\* after the last price ratio: remove nearby points and return to main.py
EqReturn ==
  /\ pc = "eq"
  /\ eq_k = NumPrices
  /\ equilibrium_points' = FilterNearby(eq_points, 1, << >>)
  /\ pc' = "fig_2d"
  /\ UNCHANGED <<inputVars, mainVars, shown, ic_a, ic_b, icVars, offer_curves, ccVars,
                 eqVars, mrs_call>>

WalrasianEquilibrium ==
  EqGrid \/ EqCandidate \/ EqNextPrice \/ EqRefine \/ EqFinish \/ EqReturn

(***************************************************************************)
(* main.py: the two charts.  Building or drawing a chart may raise         *)
(* (plotly, streamlit, memory): the environment decides.                   *)
(***************************************************************************)
solverVars == <<ic_a, ic_b, icVars, offer_curves, ccVars, equilibrium_points, eqVars>>

\* fig = create_edgeworth_box(...) / create_utility_surfaces(...): it raises when it
\* must, and otherwise when the environment makes it
CreateFigure(at, must_raise, next) ==
  /\ pc = at
  /\ \E raises \in (IF must_raise THEN {TRUE} ELSE BOOLEAN) :
       IF raises THEN Except ELSE pc' = next /\ shown' = shown
  /\ UNCHANGED <<inputVars, mainVars, solverVars, mrs_call>>

\* st.plotly_chart(fig, use_container_width=True)
PlotlyChart(at, fig, next) ==
  /\ pc = at
  /\ \E raises \in BOOLEAN :
       IF raises THEN Except ELSE pc' = next /\ shown' = Append(shown, fig)
  /\ UNCHANGED <<inputVars, mainVars, solverVars, mrs_call>>

Fig2d == CreateFigure("fig_2d", FALSE, "show_2d")
Show2d == PlotlyChart("show_2d", "fig_2d", "fig_3d")
Fig3d ==
  CreateFigure("fig_3d", ~SurfaceAssignable(FA) \/ ~SurfaceAssignable(FB), "show_3d")
Show3d == PlotlyChart("show_3d", "fig_3d", "done")

Next ==
  \/ ParseA
  \/ ParseB
  \/ \E who \in {"a", "b"} : IndifferenceCurves(who)
  \/ OfferCurves
  \/ WalrasianEquilibrium
  \/ Fig2d
  \/ Show2d
  \/ Fig3d
  \/ Show3d

Spec == Init /\ [][Next]_vars

\* The runs checked for termination: a linear pair whose MRS gap is the same at every
\* y, a utility that is not monotone in y, one that falls in x; a wide box, and a box
\* so high that the upper part of it lies where the floats are coarser.
TerminationUtilities == {"x + y", "x*y - y**2", "y - x"}

InitTermination ==
  /\ utility_a \in TerminationUtilities
  /\ utility_b \in TerminationUtilities
  /\ endow_ax = 2 * Res
  /\ endow_ay = Res
  /\ endow_bx = Res
  /\ endow_by \in {Res, 4 * Res}
  /\ Start

\* the script runs every statement to its end: nothing suspends it
FairSpec == InitTermination /\ [][Next]_vars /\ WF_vars(Next)

(***************************************************************************)
(* calculate_mrs on its own: the arguments are drawn, the call is made.    *)
(***************************************************************************)
\* the largest coordinate and the largest epsilon a call is made with
MrsMaxCoord == 5
MrsMaxEps == 2

InitMrs ==
  /\ utility_a = "x" /\ utility_b = "x"
  /\ endow_ax = Res /\ endow_ay = Res /\ endow_bx = Res /\ endow_by = Res
  /\ util_func_a = None /\ util_func_b = None
  /\ total_x = 0 /\ total_y = 0
  /\ pc = "idle"
  /\ shown = << >>
  /\ ic_a = << >> /\ ic_b = << >>
  /\ u_idx = 0 /\ x_idx = 0 /\ low = 0 /\ high = 0 /\ ic_y = << >> /\ curves = << >>
  /\ offer_curves = [x |-> << >>, y |-> << >>]
  /\ cc_i = 0 /\ x_points = << >> /\ y_points = << >>
  /\ best_y = None /\ best_diff = Inf /\ dy = 0
  /\ equilibrium_points = << >>
  /\ eq_k = 0 /\ x_candidates = << >> /\ eq_c = 0 /\ x_current = 0 /\ step = 0
  /\ eq_points = << >>
  /\ \E f \in ValidUtilities, x \in 0..MrsMaxCoord, yy \in 0..MrsMaxCoord,
        e \in 1..MrsMaxEps :
       mrs_call = [state |-> "ready", f |-> f, x |-> x, y |-> yy, epsilon |-> e,
                   result |-> None, evals |-> {}]

\* calculate_mrs(util_func, x, y, epsilon)
CallMrs ==
  /\ mrs_call.state = "ready"
  /\ mrs_call' = [mrs_call EXCEPT
        !.state = "returned",
        !.result = Some(calculate_mrs(mrs_call.f, mrs_call.x, mrs_call.y,
                                      mrs_call.epsilon)),
        !.evals = MrsEvalPoints(mrs_call.x, mrs_call.y, mrs_call.epsilon)]
  /\ UNCHANGED <<inputVars, mainVars, pc, shown, solverVars>>

NextMrs == CallMrs

SpecMrs == InitMrs /\ [][NextMrs]_vars

(***************************************************************************)
(* Properties                                                              *)
(***************************************************************************)
CcReturned == pc \in {"eq", "eq_cand", "eq_refine", "fig_2d", "show_2d", "fig_3d",
                      "show_3d", "done"}
EqReturned == pc \in {"fig_2d", "show_2d", "fig_3d", "show_3d", "done"}

\* |MRS_A(x, yy) - MRS_B(total_x - x, total_y - yy)|, computed from calculate_mrs
GapAt(x, yy) == AbsDiff(calculate_mrs(FA, x, yy, Eps),
                        calculate_mrs(FB, total_x - x, total_y - yy, Eps))

\* C1, as claimed: every point of the contract curve handed to rendering, smoothed
\* or raw, has |MRS_A - MRS_B| <= 0.1.
C1_ReturnedPointsWithinTolerance ==
  \A i \in 1..Len(offer_curves.x) :
    i <= Len(offer_curves.y) =>
      LET g == GapAt(offer_curves.x[i], offer_curves.y[i])
      IN  IsFin(g) /\ g[2] <= Quot(Scale, 10)

\* C1, amended: every accepted slice point (x_base, best_y) has |MRS_A - MRS_B| < 0.1,
\* and so has every point returned by the raw branch (at most 5 accepted points).
C1_AcceptedPointsWithinTolerance ==
  /\ Len(x_points) = Len(y_points)
  /\ \A i \in 1..Len(x_points) :
       LET g == GapAt(x_points[i], y_points[i])
       IN  IsFin(g) /\ g[2] < Quot(Scale, 10)
  /\ Len(x_points) <= SmoothMin =>
       \A i \in 1..Len(offer_curves.x) :
         LET g == GapAt(offer_curves.x[i], offer_curves.y[i])
         IN  IsFin(g) /\ g[2] < Quot(Scale, 10)

\* the raw branch has returned a non-empty curve
C1_RawCurveReturned ==
  /\ pc = "eq"
  /\ offer_curves.x # << >>
  /\ Len(x_points) <= SmoothMin
  /\ offer_curves.x = x_points

\* C2: whenever find_walrasian_equilibrium appends a point for the price ratio p it is
\* sweeping, |MRS_A - p| and |MRS_B - p| are both below the tolerance 1.0, which the
\* code applies to their sum; and every returned point is one of the appended points.
C2_AppendedPointsWithinTolerance ==
  [][/\ Len(eq_points') > Len(eq_points) =>
          LET pt == eq_points'[Len(eq_points')]
              p == PriceRatio(eq_k)
              ea == AbsDiff(calculate_mrs(FA, pt[1], pt[2], Eps), p)
              eb == AbsDiff(calculate_mrs(FB, total_x - pt[1], total_y - pt[2], Eps), p)
          IN  /\ IsFin(ea) /\ ea[2] < Scale
              /\ IsFin(eb) /\ eb[2] < Scale
              /\ ea[2] + eb[2] < Scale
     /\ \A i \in 1..Len(equilibrium_points') :
          \E j \in 1..Len(eq_points') : eq_points'[j] = equilibrium_points'[i]
    ]_vars

\* a point has been appended
C2_PointAppended == eq_points # << >> /\ pc = "eq_cand"

SquaredDistance(p1, p2) ==
  (p1[1] - p2[1]) * (p1[1] - p2[1]) + (p1[2] - p2[2]) * (p1[2] - p2[2])

RECURSIVE PickKept(_, _, _)
PickKept(points, kept, i) ==
  IF i > Len(points) THEN << >>
  ELSE (IF i \in kept THEN <<points[i]>> ELSE << >>) \o PickKept(points, kept, i + 1)

\* C3: the returned list is a subsequence, in sweep order, of the accepted candidates;
\* two distinct returned points are at distance >= 1.0; every dropped candidate is at
\* distance < 1.0 of a returned point that precedes it.
C3_DedupKeepsFirstOfEachCluster ==
  EqReturned =>
    \E kept \in SUBSET (1..Len(eq_points)) :
      /\ equilibrium_points = PickKept(eq_points, kept, 1)
      /\ \A i \in kept : \A j \in kept :
           i # j => SquaredDistance(eq_points[i], eq_points[j]) >= Res * Res
      /\ \A i \in (1..Len(eq_points)) \ kept :
           \E k \in kept :
             k < i /\ SquaredDistance(eq_points[i], eq_points[k]) < Res * Res

\* a candidate has been dropped and two points are returned
C3_CandidateDropped ==
  /\ pc = "fig_2d"
  /\ Len(equilibrium_points) >= 2
  /\ Len(equilibrium_points) < Len(eq_points)

\* C4, as claimed: a run ends with both charts shown and no error, or with the error
\* message and nothing else.
C4_CompleteResultsOrSingleError ==
  pc \in {"done", "failed"} => shown \in {<<"fig_2d", "fig_3d">>, <<"error">>}

\* util_func is non-decreasing in y on the column xi
NonDecreasingInY(f, xi, max_y) ==
  \A yy \in 0..max_y : U(f, xi, yy) <= U(f, xi, yy + 1)

CurveOnLevel(f, crv, u) ==
  \A i \in 1..Len(crv.y) :
    NonDecreasingInY(f, crv.x[i], total_y) =>
      /\ U(f, crv.x[i], crv.y[i]) <= u
      /\ u <= U(f, crv.x[i], crv.y[i] + BracketTol)

\* C5, as claimed: for a utility non-decreasing in y, every returned sample (x_i, y_i)
\* of the curve of level u has a crossing of u within the bracket tolerance above y_i,
\* also in the columns where u is not attained.
C5_EverySampleOnItsLevel ==
  /\ \A k \in 1..Len(ic_a) :
       CurveOnLevel(FA, ic_a[k], ULevel(FA, total_x, total_y, k - 1))
  /\ \A k \in 1..Len(ic_b) :
       CurveOnLevel(FB, ic_b[k], ULevel(FB, total_x, total_y, k - 1))

\* C6: the two returned arrays have equal length and x is non-decreasing, in the
\* smoothed and in the raw branch, and when no slice was accepted.
C6_EqualLengthAndSortedX ==
  /\ Len(offer_curves.x) = Len(offer_curves.y)
  /\ \A i \in 1..Len(offer_curves.x) : \A j \in 1..Len(offer_curves.x) :
       i < j => offer_curves.x[i] <= offer_curves.x[j]

\* the smoothed branch has returned
C6_SmoothedCurveReturned ==
  /\ pc = "eq"
  /\ Len(x_points) > SmoothMin
  /\ Len(offer_curves.y) = Len(x_points) - (Window - 1)

\* C7, as claimed: with n accepted slices, n < window returns the raw sequences and
\* n >= window returns the window-5 moving average of y (n - 4 values) with x
\* truncated to n - 4 values.
C7_SmoothedFromWindowOn ==
  CcReturned =>
    IF Len(x_points) < Window
      THEN offer_curves = [x |-> x_points, y |-> y_points]
      ELSE /\ Len(offer_curves.y) = Len(x_points) - 4
           /\ Len(offer_curves.x) = Len(x_points) - 4
           /\ \A k \in 1..(Len(x_points) - 4) :
                k <= Len(offer_curves.y) =>
                  offer_curves.y[k] =
                    Quot(y_points[k] + y_points[k + 1] + y_points[k + 2]
                           + y_points[k + 3] + y_points[k + 4], 5)

\* C8: calculate_mrs returns +inf exactly when f(x, y+eps) - f(x, y) is zero, otherwise
\* -((f(x+eps, y) - f(x, y))/eps) / ((f(x, y+eps) - f(x, y))/eps), and evaluates f only
\* at (x, y), (x+eps, y) and (x, y+eps).
C8_MrsIsForwardDifferenceRatio ==
  mrs_call.state = "returned" =>
    LET f == mrs_call.f
        x == mrs_call.x
        yy == mrs_call.y
        e == mrs_call.epsilon
        dfx == U(f, x + e, yy) - U(f, x, yy)
        dfy == U(f, x, yy + e) - U(f, x, yy)
    IN  /\ (mrs_call.result = Some(Inf)) <=> (dfy = 0)
        /\ dfy # 0 =>
             mrs_call.result =
               Some(Fin(Quot((-Quot(dfx * Scale, e)) * Scale, Quot(dfy * Scale, e))))
        /\ mrs_call.evals \subseteq {<<x, yy>>, <<x + e, yy>>, <<x, yy + e>>}

\* a call has returned +inf although the x difference is not zero
C8_InfiniteMrsReturned ==
  /\ mrs_call.state = "returned"
  /\ mrs_call.result = Some(Inf)
  /\ U(mrs_call.f, mrs_call.x + mrs_call.epsilon, mrs_call.y)
       # U(mrs_call.f, mrs_call.x, mrs_call.y)

InsideMargins(pt) ==
  /\ Tenth < pt[1] /\ pt[1] < total_x - Tenth
  /\ Tenth < pt[2] /\ pt[2] < total_y - Tenth

\* C9: every point of find_walrasian_equilibrium has 0.1 < x < total_x - 0.1 and
\* 0.1 < y < total_y - 0.1, every point of calculate_offer_curves has 0 < x < total_x
\* and 0 < y < total_y, and the refinements keep their candidate inside.
C9_AllocationsInsideBox ==
  /\ \A i \in 1..Len(eq_points) : InsideMargins(eq_points[i])
  /\ \A i \in 1..Len(equilibrium_points) : InsideMargins(equilibrium_points[i])
  /\ \A i \in 1..Len(x_points) : 0 < x_points[i] /\ x_points[i] < total_x
  /\ \A i \in 1..Len(y_points) : 0 < y_points[i] /\ y_points[i] < total_y
  /\ \A i \in 1..Len(offer_curves.x) : 0 < offer_curves.x[i] /\ offer_curves.x[i] < total_x
  /\ \A i \in 1..Len(offer_curves.y) : 0 < offer_curves.y[i] /\ offer_curves.y[i] < total_y
  /\ pc = "eq_refine" => Tenth < x_current /\ x_current < total_x - Tenth
  /\ pc = "cc_refine" => 0 < best_y[1] /\ best_y[1] < total_y

\* both solvers have returned points
C9_BothSolversReturnedPoints ==
  /\ pc = "fig_2d"
  /\ equilibrium_points # << >>
  /\ offer_curves.x # << >>

\* C10: the bisection of calculate_indifference_curves, the dy-halving refinement of
\* calculate_offer_curves and the step-halving refinement of
\* find_walrasian_equilibrium are each left, and the run ends.
C10_LocalSearchesTerminate ==
  /\ (pc \in {"ic_a_bisect", "ic_a_mid"}) ~> (pc \notin {"ic_a_bisect", "ic_a_mid"})
  /\ (pc \in {"ic_b_bisect", "ic_b_mid"}) ~> (pc \notin {"ic_b_bisect", "ic_b_mid"})
  /\ (pc = "cc_refine") ~> (pc # "cc_refine")
  /\ (pc = "eq_refine") ~> (pc # "eq_refine")
  /\ <>(pc \in {"done", "failed"})

====
